---- MODULE Spec2Model ----
(***************************************************************************)
(* Model of core/templates/services/auth.service.ts: the AuthService       *)
(* facade, its three AuthServiceImpl strategies (Null, Dev, Prod) and the  *)
(* promises exchanged with AngularFireAuth and AuthBackendApiService.      *)
(* One instance of each facade operation may be in flight at a time; the   *)
(* three operations interleave freely.                                     *)
(***************************************************************************)
EXTENDS Integers, Sequences, FiniteSets, TLC

\* ---------------------------------------------------------------- bounds
MaxCalls == 3
MaxEmail == 2
MaxToken == 2

\* ------------------------------------------------------------ vocabulary
Emails == 1..MaxEmail
NullEmail == 0
Tokens == 1..MaxToken

NullError == "AngularFireAuth is not available"
UserNotFound == "auth/user-not-found"
NetworkFailed == "auth/network-request-failed"
ProviderErrors == {UserNotFound, NetworkFailed}
BackendError == "backend-error"
InvalidDataType == "Invalid data type!"
RejectNull == "null"

Pending == [state |-> "pending", err |-> "none"]
Fulfilled == [state |-> "fulfilled", err |-> "none"]
Rejected(e) == [state |-> "rejected", err |-> e]
Settled(p) == p.state # "pending"

NoCreds == [src |-> "none", user |-> FALSE]
CredsPending == [state |-> "pending", err |-> "none", creds |-> NoCreds]
CredsFulfilled(c) == [state |-> "fulfilled", err |-> "none", creds |-> c]
CredsRejected(e) == [state |-> "rejected", err |-> e, creds |-> NoCreds]

VARIABLES angularFireAuth, FIREBASE_AUTH_ENABLED, EMULATOR_MODE,
          authServiceImpl, calls, hr, si, so

vars == <<angularFireAuth, FIREBASE_AUTH_ENABLED, EMULATOR_MODE,
          authServiceImpl, calls, hr, si, so>>

config == <<angularFireAuth, FIREBASE_AUTH_ENABLED, EMULATOR_MODE>>

\* ------------------------------------------------------- pure functions
firebaseAuthIsEnabled(authEnabled) == authEnabled

firebaseEmulatorIsEnabled(authEnabled, emulatorMode) ==
  firebaseAuthIsEnabled(authEnabled) /\ emulatorMode

\* Mutant: the emulator getter forgets the auth-enabled conjunct.
AuthServiceConstructorEmulatorOnly(injected, authEnabled, emulatorMode) ==
  IF ~injected THEN "Null"
  ELSE IF emulatorMode THEN "Dev"
  ELSE "Prod"

AuthServiceConstructor(injected, authEnabled, emulatorMode) ==
  IF ~injected THEN "Null"
  ELSE IF firebaseEmulatorIsEnabled(authEnabled, emulatorMode) THEN "Dev"
  ELSE "Prod"

\* The digest is a deterministic, injective function of its input alone.
md5(email) == <<"md5", email>>

\* ------------------------------------------- strategy method call results
\* thrown: the method threw synchronously instead of returning a promise.
\* provider: number of AngularFireAuth calls the method makes.

\* Mutant: a non-async method body that throws at the call site.
NullAuthServiceImplMethodThrows ==
  [thrown |-> TRUE, promise |-> Rejected(NullError), provider |-> 0]

NullAuthServiceImplMethod ==
  [thrown |-> FALSE, promise |-> Rejected(NullError), provider |-> 0]

DevSignInWithRedirectAsync ==
  [thrown |-> FALSE, promise |-> Fulfilled, provider |-> 0]

ProviderForwardingMethod ==
  [thrown |-> FALSE, promise |-> Pending, provider |-> 1]

ImplSignInWithRedirectAsync(impl) ==
  CASE impl = "Null" -> NullAuthServiceImplMethod
    [] impl = "Dev" -> DevSignInWithRedirectAsync
    [] impl = "Prod" -> ProviderForwardingMethod

\* Mutant: the Null strategy's sign-out is a no-op that succeeds.
ImplSignOutAsyncNullSucceeds(impl) ==
  CASE impl = "Null" -> DevSignInWithRedirectAsync
    [] impl = "Dev" -> ProviderForwardingMethod
    [] impl = "Prod" -> ProviderForwardingMethod

ImplSignOutAsync(impl) ==
  CASE impl = "Null" -> NullAuthServiceImplMethod
    [] impl = "Dev" -> ProviderForwardingMethod
    [] impl = "Prod" -> ProviderForwardingMethod

\* ------------------------------------------------------------ initial state
HrIdle ==
  [pc |-> "idle", email |-> NullEmail, password |-> <<>>,
   strat |-> CredsPending, thrown |-> FALSE,
   signIn |-> CredsPending, create |-> CredsPending,
   signInLog |-> <<>>, createLog |-> <<>>, getRedirectCalls |-> 0,
   tokenCalls |-> 0, idToken |-> 0, beginLog |-> <<>>,
   begin |-> Pending, result |-> Pending]

SiIdle ==
  [pc |-> "idle", strat |-> Pending, thrown |-> FALSE,
   redirectCalls |-> 0, result |-> Pending]

SoIdle ==
  [pc |-> "idle", implCalls |-> 0, endCalls |-> 0, providerCalls |-> 0,
   thrown |-> FALSE, strat |-> Pending, end |-> Pending, queue |-> <<>>,
   fulfilledCount |-> 0, firstErr |-> "none", result |-> Pending]

Init ==
  /\ angularFireAuth \in BOOLEAN
  /\ FIREBASE_AUTH_ENABLED \in BOOLEAN
  /\ EMULATOR_MODE \in BOOLEAN
  /\ authServiceImpl =
       AuthServiceConstructor(angularFireAuth, FIREBASE_AUTH_ENABLED,
                              EMULATOR_MODE)
  /\ calls = 0
  /\ hr = HrIdle
  /\ si = SiIdle
  /\ so = SoIdle

\* ------------------------------------------- handleRedirectResultAsync
CreateErrors == {NetworkFailed, "auth/email-already-in-use"}

\* AuthService.handleRedirectResultAsync up to its first await: the call of
\* authServiceImpl.getRedirectResultAsync().
HandleRedirectCall ==
  /\ hr.pc \in {"idle", "done"}
  /\ calls < MaxCalls
  /\ calls' = calls + 1
  /\ \/ /\ authServiceImpl = "Null"
        /\ LET r == NullAuthServiceImplMethod IN
             hr' = IF r.thrown
                   THEN [HrIdle EXCEPT !.pc = "done", !.thrown = TRUE,
                                       !.result = Rejected(r.promise.err)]
                   ELSE [HrIdle EXCEPT !.pc = "awaitCreds",
                                       !.strat = CredsRejected(r.promise.err)]
     \/ /\ authServiceImpl = "Dev"
        /\ \E e \in Emails \cup {NullEmail} :
             hr' = [HrIdle EXCEPT !.pc = "md5", !.email = e]
     \/ /\ authServiceImpl = "Prod"
        /\ hr' = [HrIdle EXCEPT !.pc = "getRedirectResult",
                                !.getRedirectCalls = 1]
  /\ UNCHANGED <<config, authServiceImpl, si, so>>

\* md5(email) resolves; the continuation calls signInWithEmailAndPassword.
Md5Resolve ==
  /\ hr.pc = "md5"
  /\ LET password == md5(hr.email) IN
       hr' = [hr EXCEPT !.pc = "signIn", !.password = password,
                        !.signInLog = Append(@, [email |-> hr.email,
                                                 password |-> password])]
  /\ UNCHANGED <<config, authServiceImpl, calls, si, so>>

\* prompt() returned null (cancelled): the digest of a non-string may reject.
Md5Reject ==
  /\ hr.pc = "md5"
  /\ hr.email = NullEmail
  /\ hr' = [hr EXCEPT !.pc = "awaitCreds",
                      !.strat = CredsRejected(InvalidDataType)]
  /\ UNCHANGED <<config, authServiceImpl, calls, si, so>>

SignInWithEmailResolve ==
  /\ hr.pc = "signIn"
  /\ \E u \in BOOLEAN :
       LET c == CredsFulfilled([src |-> "signIn", user |-> u]) IN
         hr' = [hr EXCEPT !.pc = "awaitCreds", !.signIn = c, !.strat = c]
  /\ UNCHANGED <<config, authServiceImpl, calls, si, so>>

\* Mutant: the catch block creates the account on every provider error.
DevOnSignInRejectedAlwaysCreates(h, err) ==
  [h EXCEPT !.pc = "create", !.signIn = CredsRejected(err),
            !.createLog = Append(@, [email |-> h.email,
                                     password |-> h.password])]

\* The catch block of DevAuthServiceImpl.getRedirectResultAsync.
DevOnSignInRejected(h, err) ==
  IF err = UserNotFound
  THEN [h EXCEPT !.pc = "create", !.signIn = CredsRejected(err),
                 !.createLog = Append(@, [email |-> h.email,
                                          password |-> h.password])]
  ELSE [h EXCEPT !.pc = "awaitCreds", !.signIn = CredsRejected(err),
                 !.strat = CredsRejected(err)]

SignInWithEmailReject ==
  /\ hr.pc = "signIn"
  /\ \E err \in ProviderErrors : hr' = DevOnSignInRejected(hr, err)
  /\ UNCHANGED <<config, authServiceImpl, calls, si, so>>

CreateUserResolve ==
  /\ hr.pc = "create"
  /\ \E u \in BOOLEAN :
       LET c == CredsFulfilled([src |-> "create", user |-> u]) IN
         hr' = [hr EXCEPT !.pc = "awaitCreds", !.create = c, !.strat = c]
  /\ UNCHANGED <<config, authServiceImpl, calls, si, so>>

CreateUserReject ==
  /\ hr.pc = "create"
  /\ \E err \in CreateErrors :
       hr' = [hr EXCEPT !.pc = "awaitCreds", !.create = CredsRejected(err),
                        !.strat = CredsRejected(err)]
  /\ UNCHANGED <<config, authServiceImpl, calls, si, so>>

GetRedirectResultResolve ==
  /\ hr.pc = "getRedirectResult"
  /\ \E u \in BOOLEAN :
       hr' = [hr EXCEPT !.pc = "awaitCreds",
                !.strat = CredsFulfilled([src |-> "redirect", user |-> u])]
  /\ UNCHANGED <<config, authServiceImpl, calls, si, so>>

GetRedirectResultReject ==
  /\ hr.pc = "getRedirectResult"
  /\ hr' = [hr EXCEPT !.pc = "awaitCreds",
                      !.strat = CredsRejected(NetworkFailed)]
  /\ UNCHANGED <<config, authServiceImpl, calls, si, so>>

\* Mutant: a missing user is forwarded to the backend with an empty token.
AfterCredsForwardsMissingUser(h) ==
  IF h.strat.state = "rejected"
  THEN [h EXCEPT !.pc = "done", !.result = Rejected(h.strat.err)]
  ELSE IF h.strat.creds.user
  THEN [h EXCEPT !.pc = "getIdToken", !.tokenCalls = @ + 1]
  ELSE [h EXCEPT !.pc = "beginSession", !.beginLog = Append(@, 0)]

\* The facade after `await getRedirectResultAsync()`: the creds.user test.
AfterCreds(h) ==
  IF h.strat.state = "rejected"
  THEN [h EXCEPT !.pc = "done", !.result = Rejected(h.strat.err)]
  ELSE IF h.strat.creds.user
  THEN [h EXCEPT !.pc = "getIdToken", !.tokenCalls = @ + 1]
  ELSE [h EXCEPT !.pc = "done", !.result = Rejected(RejectNull)]

HandleRedirectResume ==
  /\ hr.pc = "awaitCreds"
  /\ Settled(hr.strat)
  /\ hr' = AfterCreds(hr)
  /\ UNCHANGED <<config, authServiceImpl, calls, si, so>>

\* Mutant: the backend is handed a fixed token instead of the one obtained.
AfterGetIdTokenFixedToken(h, t) ==
  [h EXCEPT !.pc = "beginSession", !.idToken = t,
            !.beginLog = Append(@, 1)]

\* The facade after `await creds.user.getIdToken()`: beginSessionAsync(idToken).
AfterGetIdToken(h, t) ==
  [h EXCEPT !.pc = "beginSession", !.idToken = t,
            !.beginLog = Append(@, t)]

GetIdTokenResolve ==
  /\ hr.pc = "getIdToken"
  /\ \E t \in Tokens : hr' = AfterGetIdToken(hr, t)
  /\ UNCHANGED <<config, authServiceImpl, calls, si, so>>

GetIdTokenReject ==
  /\ hr.pc = "getIdToken"
  /\ hr' = [hr EXCEPT !.pc = "done", !.result = Rejected(NetworkFailed)]
  /\ UNCHANGED <<config, authServiceImpl, calls, si, so>>

BeginSessionResolve ==
  /\ hr.pc = "beginSession"
  /\ hr' = [hr EXCEPT !.pc = "done", !.begin = Fulfilled,
                      !.result = Fulfilled]
  /\ UNCHANGED <<config, authServiceImpl, calls, si, so>>

BeginSessionReject ==
  /\ hr.pc = "beginSession"
  /\ hr' = [hr EXCEPT !.pc = "done", !.begin = Rejected(BackendError),
                      !.result = Rejected(BackendError)]
  /\ UNCHANGED <<config, authServiceImpl, calls, si, so>>

\* ---------------------------------------------- signInWithRedirectAsync
\* AuthService.signInWithRedirectAsync: the call of the strategy's method.
SignInWithRedirectCall ==
  /\ si.pc \in {"idle", "done"}
  /\ calls < MaxCalls
  /\ calls' = calls + 1
  /\ LET r == ImplSignInWithRedirectAsync(authServiceImpl) IN
       si' = IF r.thrown
             THEN [SiIdle EXCEPT !.pc = "done", !.thrown = TRUE,
                                 !.result = Rejected(r.promise.err)]
             ELSE [SiIdle EXCEPT !.pc = "awaitImpl", !.strat = r.promise,
                                 !.redirectCalls = r.provider]
  /\ UNCHANGED <<config, authServiceImpl, hr, so>>

\* angularFireAuth.signInWithRedirect settles; the Prod method returns it.
ProviderRedirectResolve ==
  /\ si.pc = "awaitImpl"
  /\ si.redirectCalls = 1
  /\ si.strat.state = "pending"
  /\ si' = [si EXCEPT !.strat = Fulfilled]
  /\ UNCHANGED <<config, authServiceImpl, calls, hr, so>>

ProviderRedirectReject ==
  /\ si.pc = "awaitImpl"
  /\ si.redirectCalls = 1
  /\ si.strat.state = "pending"
  /\ si' = [si EXCEPT !.strat = Rejected(NetworkFailed)]
  /\ UNCHANGED <<config, authServiceImpl, calls, hr, so>>

\* Mutant: a failed sign-in makes the facade fall back to the Null strategy.
SignInWithRedirectResumeFallsBack ==
  /\ si.pc = "awaitImpl"
  /\ Settled(si.strat)
  /\ si' = [si EXCEPT !.pc = "done", !.result = si.strat]
  /\ authServiceImpl' =
       IF si.strat.state = "rejected" THEN "Null" ELSE authServiceImpl
  /\ UNCHANGED <<config, calls, hr, so>>

\* The facade's promise adopts the outcome of the strategy's promise.
SignInWithRedirectResume ==
  /\ si.pc = "awaitImpl"
  /\ Settled(si.strat)
  /\ si' = [si EXCEPT !.pc = "done", !.result = si.strat]
  /\ UNCHANGED <<config, authServiceImpl, calls, hr, so>>

\* ----------------------------------------------------------- signOutAsync
\* The array literal handed to Promise.all: the strategy's signOutAsync() is
\* evaluated first, then authBackendApiService.endSessionAsync().
SignOutStart(impl) ==
  LET r == ImplSignOutAsync(impl) IN
    IF r.thrown
    THEN [SoIdle EXCEPT !.pc = "done", !.implCalls = 1, !.thrown = TRUE,
                        !.result = Rejected(r.promise.err)]
    ELSE [SoIdle EXCEPT !.pc = "running", !.implCalls = 1, !.endCalls = 1,
            !.providerCalls = r.provider, !.strat = r.promise,
            !.queue = IF Settled(r.promise) THEN <<"strat">> ELSE <<>>,
            !.firstErr = r.promise.err]

SignOutCall ==
  /\ so.pc \in {"idle", "done"}
  /\ calls < MaxCalls
  /\ calls' = calls + 1
  /\ so' = SignOutStart(authServiceImpl)
  /\ UNCHANGED <<config, authServiceImpl, hr, si>>

NoteFailure(s, e) == IF s.firstErr = "none" THEN e ELSE s.firstErr

\* angularFireAuth.signOut() settles; its reaction joins the job queue.
ProviderSignOutResolve ==
  /\ so.pc = "running"
  /\ so.strat.state = "pending"
  /\ so' = [so EXCEPT !.strat = Fulfilled, !.queue = Append(@, "strat")]
  /\ UNCHANGED <<config, authServiceImpl, calls, hr, si>>

ProviderSignOutReject ==
  /\ so.pc = "running"
  /\ so.strat.state = "pending"
  /\ so' = [so EXCEPT !.strat = Rejected(NetworkFailed),
                      !.queue = Append(@, "strat"),
                      !.firstErr = NoteFailure(so, NetworkFailed)]
  /\ UNCHANGED <<config, authServiceImpl, calls, hr, si>>

\* authBackendApiService.endSessionAsync() settles.
EndSessionResolve ==
  /\ so.pc = "running"
  /\ so.end.state = "pending"
  /\ so' = [so EXCEPT !.end = Fulfilled, !.queue = Append(@, "end")]
  /\ UNCHANGED <<config, authServiceImpl, calls, hr, si>>

EndSessionReject ==
  /\ so.pc = "running"
  /\ so.end.state = "pending"
  /\ so' = [so EXCEPT !.end = Rejected(BackendError),
                      !.queue = Append(@, "end"),
                      !.firstErr = NoteFailure(so, BackendError)]
  /\ UNCHANGED <<config, authServiceImpl, calls, hr, si>>

\* Mutant: Promise.allSettled, which waits for both and never rejects.
PromiseAllReactAllSettled(s, p) ==
  LET n == s.fulfilledCount + 1 IN
    [s EXCEPT !.fulfilledCount = n,
              !.result = IF n = 2 THEN Fulfilled ELSE @]

\* One reaction of Promise.all to a settled element p, followed by the
\* facade's `await`: reject on the first rejection, fulfil on the last
\* fulfilment, ignore everything once settled.
PromiseAllReact(s, p) ==
  IF Settled(s.result) THEN s
  ELSE IF p.state = "rejected" THEN [s EXCEPT !.result = Rejected(p.err)]
  ELSE LET n == s.fulfilledCount + 1 IN
         [s EXCEPT !.fulfilledCount = n,
                   !.result = IF n = 2 THEN Fulfilled ELSE @]

SignOutReact ==
  /\ so.pc = "running"
  /\ so.queue # <<>>
  /\ LET p == IF Head(so.queue) = "strat" THEN so.strat ELSE so.end
         s == PromiseAllReact([so EXCEPT !.queue = Tail(@)], p)
     IN so' = [s EXCEPT !.pc = IF /\ s.queue = <<>>
                                  /\ Settled(s.strat)
                                  /\ Settled(s.end)
                               THEN "done" ELSE "running"]
  /\ UNCHANGED <<config, authServiceImpl, calls, hr, si>>

\* ------------------------------------------------------------ specification
Next ==
  \/ HandleRedirectCall
  \/ Md5Resolve
  \/ Md5Reject
  \/ SignInWithEmailResolve
  \/ SignInWithEmailReject
  \/ CreateUserResolve
  \/ CreateUserReject
  \/ GetRedirectResultResolve
  \/ GetRedirectResultReject
  \/ HandleRedirectResume
  \/ GetIdTokenResolve
  \/ GetIdTokenReject
  \/ BeginSessionResolve
  \/ BeginSessionReject
  \/ SignInWithRedirectCall
  \/ ProviderRedirectResolve
  \/ ProviderRedirectReject
  \/ SignInWithRedirectResume
  \/ SignOutCall
  \/ ProviderSignOutResolve
  \/ ProviderSignOutReject
  \/ EndSessionResolve
  \/ EndSessionReject
  \/ SignOutReact

Spec == Init /\ [][Next]_vars

TypeOK ==
  /\ authServiceImpl \in {"Null", "Dev", "Prod"}
  /\ calls \in 0..MaxCalls
  /\ hr.pc \in {"idle", "md5", "signIn", "create", "getRedirectResult",
                "awaitCreds", "getIdToken", "beginSession", "done"}
  /\ si.pc \in {"idle", "awaitImpl", "done"}
  /\ so.pc \in {"idle", "running", "done"}

\* ------------------------------------------------------------------ claims

\* C1 (as stated): the strategy chosen at construction is determined by the
\* two flags alone: auth disabled gives Null whatever the emulator flag is,
\* auth and emulator enabled give Dev, auth enabled without emulator gives
\* Prod; the injection of AngularFireAuth plays no part.
C1_SelectionByFlagsAlone ==
  /\ ~FIREBASE_AUTH_ENABLED => authServiceImpl = "Null"
  /\ (FIREBASE_AUTH_ENABLED /\ EMULATOR_MODE) => authServiceImpl = "Dev"
  /\ (FIREBASE_AUTH_ENABLED /\ ~EMULATOR_MODE) => authServiceImpl = "Prod"

\* C1 (amended): the strategy is a total function of whether AngularFireAuth
\* was injected and of the two flags: not injected gives Null whatever the
\* flags are; injected with both flags set gives Dev; injected otherwise
\* (auth disabled included) gives Prod.
C1_SelectionByInjectionAndFlags ==
  /\ ~angularFireAuth => authServiceImpl = "Null"
  /\ (angularFireAuth /\ FIREBASE_AUTH_ENABLED /\ EMULATOR_MODE)
       => authServiceImpl = "Dev"
  /\ (angularFireAuth /\ ~(FIREBASE_AUTH_ENABLED /\ EMULATOR_MODE))
       => authServiceImpl = "Prod"

C1_Witness ==
  /\ angularFireAuth
  /\ ~FIREBASE_AUTH_ENABLED
  /\ EMULATOR_MODE
  /\ authServiceImpl = "Prod"
  /\ calls > 0

\* C2: signOutAsync stays unsettled until both the strategy's sign-out and
\* endSessionAsync have completed; it then succeeds only if both succeeded
\* and otherwise fails with the first failure encountered.
C2_SignOutSettlesAfterBoth ==
  /\ Settled(so.result) => (Settled(so.strat) /\ Settled(so.end))
  /\ so.result.state = "fulfilled"
       => (so.strat.state = "fulfilled" /\ so.end.state = "fulfilled")
  /\ so.result.state = "rejected" => so.result.err = so.firstErr

\* C3: under a strategy other than Null, one signOutAsync call invokes the
\* strategy's sign-out and endSessionAsync exactly once each, in every order
\* of completion, and the call rejects if either of them rejects.
C3_SignOutInvokesBothOnce ==
  (authServiceImpl # "Null" /\ so.pc # "idle") =>
    /\ so.implCalls = 1
    /\ so.providerCalls = 1
    /\ so.endCalls = 1
    /\ (so.strat.state = "rejected" \/ so.end.state = "rejected") =>
         /\ so.result.state # "fulfilled"
         /\ so.queue = <<>> => so.result.state = "rejected"

C3_Witness ==
  /\ authServiceImpl # "Null"
  /\ so.pc = "done"
  /\ so.strat.state = "fulfilled"
  /\ so.end.state = "rejected"
  /\ so.result.state = "rejected"

\* C4: when the redirect result has a user whose token is T, beginSessionAsync
\* is called exactly once, with T, only after the token was obtained, and
\* handleRedirectResultAsync settles as that call settles.
C4_TokenForwardedToBeginSession ==
  /\ hr.beginLog # <<>> =>
       /\ hr.strat.state = "fulfilled" /\ hr.strat.creds.user
       /\ hr.tokenCalls = 1
       /\ hr.idToken \in Tokens
       /\ hr.beginLog = <<hr.idToken>>
  /\ hr.idToken # 0 =>
       /\ Len(hr.beginLog) = 1
       /\ hr.result = hr.begin
       /\ hr.pc = "done" <=> Settled(hr.begin)

C4_Witness ==
  /\ hr.pc = "done"
  /\ hr.strat.creds.user
  /\ hr.idToken = MaxToken
  /\ hr.beginLog = <<MaxToken>>
  /\ hr.result = Rejected(BackendError)

\* C5: when the redirect result has no user, handleRedirectResultAsync
\* rejects with null (no underlying cause) and beginSessionAsync is never
\* called during the operation.
C5_NoUserRejectsWithoutSession ==
  (hr.strat.state = "fulfilled" /\ ~hr.strat.creds.user) =>
    /\ hr.beginLog = <<>>
    /\ hr.tokenCalls = 0
    /\ hr.pc \in {"awaitCreds", "done"}
    /\ hr.pc = "done" => hr.result = Rejected(RejectNull)

C5_Witness ==
  /\ hr.pc = "done"
  /\ hr.strat.state = "fulfilled"
  /\ ~hr.strat.creds.user
  /\ hr.result = Rejected(RejectNull)

DevAttempted == authServiceImpl = "Dev" /\ hr.pc \notin {"idle", "md5"}

\* C6 (as stated): every Dev getRedirectResultAsync call makes exactly one
\* sign-in attempt; on "user not found" exactly one account creation follows
\* with the same email and password and the operation then succeeds with the
\* resulting credential; any other error is re-thrown and nothing is created.
C6_CreateThenSucceeds ==
  DevAttempted =>
    /\ Len(hr.signInLog) = 1
    /\ hr.signIn = CredsRejected(UserNotFound) =>
         /\ hr.createLog = <<hr.signInLog[1]>>
         /\ hr.pc # "create" =>
              /\ hr.strat.state = "fulfilled"
              /\ hr.strat.creds.src = "create"
    /\ (hr.signIn.state = "rejected" /\ hr.signIn.err # UserNotFound) =>
         /\ hr.createLog = <<>>
         /\ hr.strat = hr.signIn

\* C6 (amended): a call whose password derivation completes makes exactly one
\* sign-in attempt, with the email and its digest (a call whose derivation
\* fails makes none and rejects with that failure); on "user not found"
\* exactly one account creation follows with the same email and password and
\* the operation settles as that creation settles; any other error is
\* re-thrown unchanged and nothing is created.
C6_CreateOutcomeIsResult ==
  DevAttempted =>
    /\ IF hr.password = <<>>
       THEN /\ hr.signInLog = <<>>
            /\ hr.createLog = <<>>
            /\ hr.strat = CredsRejected(InvalidDataType)
       ELSE hr.signInLog = <<[email |-> hr.email,
                              password |-> <<"md5", hr.email>>]>>
    /\ hr.signIn = CredsRejected(UserNotFound) =>
         /\ hr.createLog = <<hr.signInLog[1]>>
         /\ hr.strat = hr.create
         /\ hr.pc # "create" => Settled(hr.create)
    /\ (hr.signIn.state = "rejected" /\ hr.signIn.err # UserNotFound) =>
         /\ hr.createLog = <<>>
         /\ hr.strat = hr.signIn
    /\ hr.signIn.state = "fulfilled" =>
         /\ hr.createLog = <<>>
         /\ hr.strat = hr.signIn

C6_Witness ==
  /\ authServiceImpl = "Dev"
  /\ hr.pc = "done"
  /\ hr.signIn = CredsRejected(UserNotFound)
  /\ Len(hr.createLog) = 1
  /\ hr.create.state = "rejected"
  /\ hr.result = Rejected(hr.create.err)

\* C7: under the Null strategy each of the three strategy methods returns a
\* promise rejected with the "not available" error on every call, never
\* throws at the call site, and calls AngularFireAuth not at all.
C7_NullRejectsAsynchronously ==
  authServiceImpl = "Null" =>
    /\ hr.pc # "idle" =>
         /\ ~hr.thrown
         /\ hr.strat = CredsRejected(NullError)
         /\ hr.getRedirectCalls = 0
         /\ hr.signInLog = <<>> /\ hr.createLog = <<>>
    /\ si.pc # "idle" =>
         /\ ~si.thrown
         /\ si.strat = Rejected(NullError)
         /\ si.redirectCalls = 0
    /\ so.pc # "idle" =>
         /\ ~so.thrown
         /\ so.strat = Rejected(NullError)
         /\ so.providerCalls = 0

C7_Witness ==
  /\ authServiceImpl = "Null"
  /\ hr.pc = "done"
  /\ si.pc = "done"
  /\ so.pc = "done"

\* C8: under the Prod strategy the promise of signInWithRedirectAsync never
\* settles, whatever AngularFireAuth's signInWithRedirect does.
C8_ProdSignInNeverSettles ==
  (authServiceImpl = "Prod" /\ si.pc # "idle") =>
    /\ si.strat.state = "pending"
    /\ si.result.state = "pending"

\* C9: across every interleaving of the three facade operations, failed ones
\* included, the active strategy is one of Null, Dev, Prod and is never
\* reassigned.
C9_StrategyNeverReassigned ==
  /\ [](authServiceImpl \in {"Null", "Dev", "Prod"})
  /\ [][authServiceImpl' = authServiceImpl]_vars

C9_Witness ==
  /\ calls = MaxCalls
  /\ hr.pc = "done" /\ hr.result.state = "rejected"
  /\ si.pc = "done" /\ si.result.state = "rejected"
  /\ so.pc = "done" /\ so.result.state = "rejected"

\* C10: under the Null strategy signOutAsync still calls endSessionAsync
\* exactly once and rejects with the "not available" error whether
\* endSessionAsync succeeds or fails, while handleRedirectResultAsync rejects
\* with that error and never calls beginSessionAsync.
C10_NullSignOutStillEndsSession ==
  authServiceImpl = "Null" =>
    /\ so.pc # "idle" =>
         /\ so.endCalls = 1
         /\ Settled(so.result) => so.result = Rejected(NullError)
         /\ so.queue = <<>> => so.result = Rejected(NullError)
    /\ hr.beginLog = <<>>
    /\ hr.tokenCalls = 0
    /\ hr.pc = "done" => hr.result = Rejected(NullError)

C10_Witness ==
  /\ authServiceImpl = "Null"
  /\ so.pc = "done"
  /\ so.end.state = "rejected"
  /\ so.result = Rejected(NullError)
  /\ hr.pc = "done"

====
